---------------------------- MODULE Spec2Model ----------------------------
(***************************************************************************)
(* A model of the CMS server of src/cms/server.js: the rate limiters, the  *)
(* session middleware, login / logout, the auth gate and the create-post   *)
(* pipeline (row insert followed by the content-file write).               *)
(*                                                                         *)
(* Time is counted in milliseconds, as in the source.  Strings that the    *)
(* code transforms (titles, slugs, file contents) are sequences of         *)
(* one-character strings; strings the code only carries are TLA+ strings.  *)
(***************************************************************************)
EXTENDS Integers, Sequences, FiniteSets, TLC

(***************************************************************************)
(* Bounds of the model.                                                    *)
(***************************************************************************)
\* request slots: how many requests can be in flight at the same time
MaxInFlight == 2
\* requests started in one behaviour of Spec (the create-post pipeline)
MaxRequests == 4
\* requests started in one behaviour of SpecLogin (the login limiter)
MaxLoginRequests == 7
\* requests started in one behaviour of SpecSession (session lifetime)
MaxSessionRequests == 3
\* requests started in one behaviour of SpecSlug (slug derivation)
MaxSlugRequests == 2
\* longest title of SpecSlug
MaxTitleLen == 3
\* half-hour ticks of the clock in SpecLogin
MaxHalfHourTicks == 2
\* half-day ticks of the clock in SpecSession
MaxHalfDayTicks == 3
\* requests started in one behaviour of SpecLimiter (the general limiter)
MaxLimiterRequests == 102
\* requests started in one behaviour of SpecAuth (credential verification)
MaxAuthRequests == 3
\* requests started in one behaviour of SpecDates (dates and listings)
MaxDateRequests == 4
\* millisecond ticks of the clock in SpecDates
MaxMsTicks == 2
\* requests started in one behaviour of SpecPublish (the content file)
MaxPublishRequests == 3

(***************************************************************************)
(* Program constants.                                                      *)
(***************************************************************************)
\* limiter: windowMs and max                       (server.js:33-36)
limiterWindowMs == 15 * 60 * 1000
limiterMax == 100
\* loginLimiter: windowMs and max                  (server.js:40-43)
loginWindowMs == 60 * 60 * 1000
loginMax == 5
\* session cookie maxAge                           (server.js:80)
maxAge == 24 * 60 * 60 * 1000

Clients == {"10.0.0.1"}

(***************************************************************************)
(* JavaScript values of a request body field: a string (a sequence of      *)
(* characters), undefined (field missing) or a value of another type.      *)
(***************************************************************************)
Str(s) == [t |-> "string", v |-> s]
Undefined == [t |-> "undefined", v |-> << >>]
NumberFive == [t |-> "number", v |-> << >>]

\* mutant: a validation that only asks for the fields to be present
TruthyIfPresent(x) == x.t # "undefined"

\* JavaScript truthiness of a body value: !x is false
Truthy(x) == \/ x.t = "string" /\ x.v # << >>
             \/ x.t = "number"

(***************************************************************************)
(* Slug derivation: title.toLowerCase().replace(/[^a-z0-9]+/g, '-')        *)
(***************************************************************************)
UpperCase == << "A", "B", "C", "D", "E", "F", "G", "H", "I", "J", "K", "L", "M",
                "N", "O", "P", "Q", "R", "S", "T", "U", "V", "W", "X", "Y", "Z" >>
LowerCase == << "a", "b", "c", "d", "e", "f", "g", "h", "i", "j", "k", "l", "m",
                "n", "o", "p", "q", "r", "s", "t", "u", "v", "w", "x", "y", "z" >>
Digits == << "0", "1", "2", "3", "4", "5", "6", "7", "8", "9" >>

Range(s) == { s[i] : i \in DOMAIN s }

\* String.prototype.toLowerCase, one character
toLowerChar(c) ==
  IF \E i \in DOMAIN UpperCase : UpperCase[i] = c
  THEN LowerCase[CHOOSE i \in DOMAIN UpperCase : UpperCase[i] = c]
  ELSE c

toLowerCase(s) == [ i \in DOMAIN s |-> toLowerChar(s[i]) ]

\* the character class [a-z0-9]
IsSlugChar(c) == c \in Range(LowerCase) \cup Range(Digits)

\* replace(/[^a-z0-9]+/g, '-'): every maximal run of characters outside
\* [a-z0-9] becomes one '-'
RECURSIVE replaceRuns(_, _)
replaceRuns(s, inRun) ==
  IF s = << >> THEN << >>
  ELSE IF IsSlugChar(Head(s)) THEN << Head(s) >> \o replaceRuns(Tail(s), FALSE)
  ELSE IF inRun THEN replaceRuns(Tail(s), TRUE)
  ELSE << "-" >> \o replaceRuns(Tail(s), TRUE)

\* server.js:148
deriveSlug(title) == replaceRuns(toLowerCase(title), FALSE)

(***************************************************************************)
(* new Date().toISOString(): a fixed-width text, so that the TEXT          *)
(* comparison of two dates is the comparison of the two instants.  The     *)
(* model writes the instant as IsoWidth decimal digits.                    *)
(***************************************************************************)
IsoWidth == 9

RECURSIVE digitsOf(_, _)
digitsOf(n, width) ==
  IF width = 0 THEN << >>
  ELSE digitsOf(n \div 10, width - 1) \o << Digits[(n % 10) + 1] >>

toISOString(t) == digitsOf(t, IsoWidth)

\* text order of two strings of the same alphabet of digits
RECURSIVE textLess(_, _)
textLess(a, b) ==
  IF b = << >> THEN FALSE
  ELSE IF a = << >> THEN TRUE
  ELSE IF Head(a) = Head(b) THEN textLess(Tail(a), Tail(b))
  ELSE (CHOOSE i \in DOMAIN Digits : Digits[i] = Head(a))
         < (CHOOSE i \in DOMAIN Digits : Digits[i] = Head(b))

(***************************************************************************)
(* The Hugo content file of a post and its path.                           *)
(***************************************************************************)
\* server.js:160-166
hugoContent(title, date, content) ==
  << "---", "\n", "title: ", "\"" >> \o title \o << "\"", "\n",
     "date: " >> \o date \o << "\n", "draft: false", "\n", "---", "\n", "\n" >>
  \o content

\* server.js:168
filePath(slug) == << "content/posts/" >> \o slug \o << ".md" >>

(***************************************************************************)
(* State.                                                                  *)
(***************************************************************************)
VARIABLES
  now,          \* the clock, Date.now()
  bootPc,       \* the admin bootstrap: "hashing", "insert", "done", "failed"
  users,        \* table users: set of rows [id, username, password]
  posts,        \* table posts: set of rows [id, title, content, date, slug]
  files,        \* content files: path -> content
  sessions,     \* the session store: sid -> [userId, expires]
  nextSid,      \* the next session id the middleware generates
  limiterHits,  \* store of limiter: client -> [hits, resetTime]
  loginHits,    \* store of loginLimiter: client -> [hits, resetTime]
  req,          \* the requests in flight, one per slot
  last,         \* the request that answered last, with its response
  nreq,         \* requests started so far
  issuedAt,     \* history: sid -> time of the login that issued it
  loggedOut,    \* history: sids destroyed by a logout
  loginLog      \* history: the POST /cms/login arrivals of each client and
                \* instant, << client, time >> -> [attempts, verified, rejected]

vars == << now, bootPc, users, posts, files, sessions, nextSid, limiterHits,
           loginHits, req, last, nreq, issuedAt, loggedOut, loginLog >>

Slots == 1 .. MaxInFlight
\* one request at a time
OneSlot == { 1 }

\* process.env.ADMIN_PASSWORD and the other values a login form can carry;
\* NoField is a missing body field (undefined)
AdminPassword == "s3cret"
NoField == "(undefined)"
Usernames == { "admin", "mallory", NoField }
Passwords == { AdminPassword, "guess", NoField }

\* mutant: a comparison that accepts every password
bcryptCompareAny(pw, hash) == TRUE

\* bcrypt.hash: a salted one-way digest; bcrypt.compare accepts exactly the
\* password that was hashed
bcryptHash(pw) == [ bcrypt |-> pw ]
bcryptCompare(pw, hash) == hash.bcrypt = pw

NoUser == [ id |-> 0, username |-> NoField, password |-> bcryptHash(NoField) ]

(***************************************************************************)
(* Responses.                                                              *)
(***************************************************************************)
NoResponse ==
  [ status |-> 0, type |-> "none", text |-> "", id |-> 0, slug |-> << >>,
    rows |-> << >> ]
\* res.redirect(url): status 302, also after res.status(500)
Redirect(url) == [ NoResponse EXCEPT !.status = 302, !.type = "redirect", !.text = url ]
\* res.status(code).json({ error: text })
JsonError(code, text) == [ NoResponse EXCEPT !.status = code, !.type = "json", !.text = text ]
\* res.json({ id, slug })
JsonCreated(id, slug) ==
  [ NoResponse EXCEPT !.status = 200, !.type = "json", !.id = id, !.slug = slug ]
\* res.json(posts)
JsonRows(rows) == [ NoResponse EXCEPT !.status = 200, !.type = "json", !.rows = rows ]
\* res.sendFile(page)
SendFile(page) == [ NoResponse EXCEPT !.status = 200, !.type = "file", !.text = page ]
\* the limiter's rejection
TooManyRequests == JsonError(429, "Too many requests, please try again later.")

IdleReq ==
  [ pc |-> "idle", kind |-> "none", client |-> "", cookie |-> 0,
    sid |-> 0, userId |-> 0, authed |-> FALSE,
    title |-> Undefined, content |-> Undefined,
    username |-> NoField, password |-> NoField, user |-> NoUser,
    date |-> << >>, slug |-> << >>, err |-> "none", lastID |-> 0,
    inserts |-> 0, writes |-> 0, res |-> NoResponse ]

EmptyFn == [ x \in {} |-> 0 ]

Without(f, k) == [ x \in (DOMAIN f) \ {k} |-> f[x] ]

Init ==
  /\ now = 0
  /\ bootPc = "hashing"
  /\ users = {}
  /\ posts = {}
  /\ files = EmptyFn
  /\ sessions = EmptyFn
  /\ nextSid = 1
  /\ limiterHits = EmptyFn
  /\ loginHits = EmptyFn
  /\ req = [ r \in Slots |-> IdleReq ]
  /\ last = IdleReq
  /\ nreq = 0
  /\ issuedAt = EmptyFn
  /\ loggedOut = {}
  /\ loginLog = EmptyFn

(***************************************************************************)
(* The admin bootstrap (server.js:63-67).                                  *)
(***************************************************************************)
BootHash ==
  /\ bootPc = "hashing"
  /\ \/ bootPc' = "insert"
     \/ bootPc' = "failed"       \* bcrypt.hash reports err
  /\ UNCHANGED << now, users, posts, files, sessions, nextSid, limiterHits,
                  loginHits, req, last, nreq, issuedAt, loggedOut, loginLog >>

\* INSERT OR IGNORE INTO users (username, password) VALUES ('admin', hash)
insertOrIgnoreAdmin(table, hash) ==
  IF \E u \in table : u.username = "admin" THEN table
  ELSE table \cup { [ id |-> Cardinality(table) + 1, username |-> "admin",
                      password |-> hash ] }

BootInsert ==
  /\ bootPc = "insert"
  /\ bootPc' = "done"
  /\ users' = insertOrIgnoreAdmin(users, bcryptHash(AdminPassword))
  /\ UNCHANGED << now, posts, files, sessions, nextSid, limiterHits,
                  loginHits, req, last, nreq, issuedAt, loggedOut, loginLog >>

(***************************************************************************)
(* The rate limiters (server.js:33-44): a fixed window per client; a       *)
(* request is rejected when the client's hits in the window exceed max.    *)
(***************************************************************************)
hit(store, c, windowMs) ==
  IF c \in DOMAIN store /\ store[c].resetTime > now
  THEN [ store EXCEPT ![c].hits = @ + 1 ]
  ELSE (c :> [ hits |-> 1, resetTime |-> now + windowMs ]) @@ store

\* app.use('/cms/', limiter): every request of the model is under /cms/
generalAfter(c) == hit(limiterHits, c, limiterWindowMs)
\* mutant: the general limiter admits one request more
generalOkOffByOne(c) == generalAfter(c)[c].hits <= limiterMax + 1
generalOk(c) == generalAfter(c)[c].hits <= limiterMax

\* app.use('/cms/login', loginLimiter): every method of the path /cms/login
underLoginLimiter(kind) == kind \in { "GET /cms/login", "POST /cms/login" }

loginAfter(c, kind) ==
  IF underLoginLimiter(kind) /\ generalOk(c)
  THEN hit(loginHits, c, loginWindowMs) ELSE loginHits

\* mutant: the login limiter rejects from the max-th hit on
loginOkOffByOne(c, kind) ==
  underLoginLimiter(kind) => loginAfter(c, kind)[c].hits <= loginMax + 1

loginOk(c, kind) ==
  underLoginLimiter(kind) => loginAfter(c, kind)[c].hits <= loginMax

admitted(c, kind) == generalOk(c) /\ loginOk(c, kind)

\* which limiter turned the request down
rejectedBy(c, kind) ==
  IF ~generalOk(c) THEN "limiter"
  ELSE IF ~loginOk(c, kind) THEN "loginLimiter"
  ELSE "none"

(***************************************************************************)
(* The session middleware (server.js:73-82): the default memory store,     *)
(* resave false, saveUninitialized false, rolling unset.  A request loads  *)
(* the session of its cookie at arrival; the end of its response commits   *)
(* it: a modified session is saved, an unmodified one is touched.          *)
(***************************************************************************)
\* the store holds an unexpired session under this cookie
found(cookie) == cookie \in DOMAIN sessions /\ sessions[cookie].expires > now

\* store.get deletes the session it finds expired
storeAfterGet(cookie) ==
  IF cookie \in DOMAIN sessions /\ ~found(cookie)
  THEN Without(sessions, cookie) ELSE sessions

loadedSid(cookie) == IF found(cookie) THEN cookie ELSE 0
loadedUserId(cookie) == IF found(cookie) THEN sessions[cookie].userId ELSE 0

\* end of a response with an unmodified session: req.session.touch() sets
\* cookie.expires to now + maxAge and store.touch copies it to the stored
\* session, if the store still holds it
touch(store, sid) ==
  IF sid \in DOMAIN store /\ store[sid].expires > now
  THEN [ store EXCEPT ![sid].expires = now + maxAge ]
  ELSE IF sid \in DOMAIN store THEN Without(store, sid)
  ELSE store

\* mutant: an auth gate that lets every request through
requireAuthOpen(userId) == TRUE

\* requireAuth (server.js:86-91): !req.session.userId redirects
requireAuth(userId) == userId # 0

FreeSlot(r) ==
  /\ req[r].pc = "idle"
  /\ \A q \in Slots : q < r => req[q].pc # "idle"

\* the cookies a request can carry: none (0) or any session id issued so far
Cookies == 0 .. (nextSid - 1)
\* the cookie of a browser: the session id issued last, if any
LatestCookie == { nextSid - 1 }

\* the request as it enters its route
arrived(c, kind, cookie) ==
  [ IdleReq EXCEPT !.kind = kind, !.client = c, !.cookie = cookie,
                   !.sid = loadedSid(cookie), !.userId = loadedUserId(cookie),
                   !.authed = found(cookie) ]

\* the request answers: its slot is free again, and last keeps what it did
Finish(r, rq, response) ==
  /\ req' = [ req EXCEPT ![r] = IdleReq ]
  /\ last' = [ rq EXCEPT !.pc = "done", !.res = response ]

\* history: one more login attempt of client c at this instant; verified
\* counts those that passed both limiters, rejected those the login limiter
\* turned down
NoAttempts == [ attempts |-> 0, verified |-> 0, rejected |-> 0 ]
logOf(log, k) == IF k \in DOMAIN log THEN log[k] ELSE NoAttempts
logged(c, kind) ==
  LET k == << c, now >>
      old == logOf(loginLog, k)
      by == rejectedBy(c, kind)
  IN  (k :> [ attempts |-> old.attempts + 1,
              verified |-> old.verified + (IF by = "none" THEN 1 ELSE 0),
              rejected |-> old.rejected + (IF by = "loginLimiter" THEN 1 ELSE 0) ])
      @@ loginLog

\* what every arrival does before its route: count the request, pass the
\* limiters; a rejected request ends here
Arrive(r, c, kind) ==
  /\ FreeSlot(r)
  /\ nreq' = nreq + 1
  /\ limiterHits' = generalAfter(c)
  /\ loginHits' = loginAfter(c, kind)
  /\ loginLog' = IF kind = "POST /cms/login" THEN logged(c, kind) ELSE loginLog

Rejected(r, c, kind) ==
  /\ Finish(r, [ IdleReq EXCEPT !.kind = kind, !.client = c ], TooManyRequests)
  /\ UNCHANGED << now, bootPc, users, posts, files, sessions, nextSid,
                  issuedAt, loggedOut >>

(***************************************************************************)
(* GET /cms/login (server.js:94-96)                                        *)
(***************************************************************************)
GetLogin(r, c, cookie) ==
  /\ Arrive(r, c, "GET /cms/login")
  /\ IF ~admitted(c, "GET /cms/login") THEN Rejected(r, c, "GET /cms/login")
     ELSE /\ Finish(r, arrived(c, "GET /cms/login", cookie), SendFile("login.html"))
          /\ sessions' = touch(storeAfterGet(cookie), loadedSid(cookie))
          /\ UNCHANGED << now, bootPc, users, posts, files, nextSid,
                          issuedAt, loggedOut >>

(***************************************************************************)
(* POST /cms/login (server.js:98-119)                                      *)
(***************************************************************************)
PostLogin(r, c, cookie, username, password) ==
  /\ Arrive(r, c, "POST /cms/login")
  /\ IF ~admitted(c, "POST /cms/login") THEN Rejected(r, c, "POST /cms/login")
     ELSE /\ req' = [ req EXCEPT ![r] =
                 [ arrived(c, "POST /cms/login", cookie) EXCEPT
                     !.pc = "lookup", !.username = username, !.password = password ] ]
          /\ sessions' = storeAfterGet(cookie)
          /\ UNCHANGED last
          /\ UNCHANGED << now, bootPc, users, posts, files, nextSid,
                          issuedAt, loggedOut >>

\* mutant: the lookup without its WHERE clause
selectUserAny(username) ==
  IF users # {} THEN CHOOSE u \in users : TRUE ELSE NoUser

\* SELECT * FROM users WHERE username = ?
selectUser(username) ==
  IF \E u \in users : u.username = username
  THEN CHOOSE u \in users : u.username = username
  ELSE NoUser

\* db.get fails: the catch block answers
LoginLookupError(r) ==
  /\ req[r].pc = "lookup"
  /\ Finish(r, req[r], Redirect("/cms/login?error=1"))
  /\ sessions' = touch(sessions, req[r].sid)
  /\ UNCHANGED << now, bootPc, users, posts, files, nextSid, limiterHits,
                  loginHits, nreq, issuedAt, loggedOut, loginLog >>

\* db.get answers: no row redirects, a row goes on to bcrypt.compare
LoginLookup(r) ==
  /\ req[r].pc = "lookup"
  /\ LET user == selectUser(req[r].username) IN
       IF user = NoUser
       THEN /\ Finish(r, req[r], Redirect("/cms/login?error=1"))
            /\ sessions' = touch(sessions, req[r].sid)
       ELSE /\ req' = [ req EXCEPT ![r].pc = "compare", ![r].user = user ]
            /\ UNCHANGED << sessions, last >>
  /\ UNCHANGED << now, bootPc, users, posts, files, nextSid, limiterHits,
                  loginHits, nreq, issuedAt, loggedOut, loginLog >>

\* bcrypt.compare answers (it rejects a missing password: the catch block)
LoginCompare(r) ==
  /\ req[r].pc = "compare"
  /\ IF req[r].password = NoField \/ ~bcryptCompare(req[r].password, req[r].user.password)
     THEN /\ Finish(r, req[r], Redirect("/cms/login?error=1"))
          /\ sessions' = touch(sessions, req[r].sid)
          /\ UNCHANGED << nextSid, issuedAt, loggedOut >>
     ELSE \* req.session.userId = user.id; the response saves a modified session
          LET uid == req[r].user.id
              sid == IF req[r].sid = 0 THEN nextSid ELSE req[r].sid
          IN  /\ Finish(r, [ req[r] EXCEPT !.userId = uid, !.sid = sid ],
                     Redirect("/cms/dashboard"))
              /\ IF req[r].userId # uid
                 THEN /\ sessions' = (sid :> [ userId |-> uid, expires |-> now + maxAge ])
                                       @@ sessions
                      /\ nextSid' = IF req[r].sid = 0 THEN nextSid + 1 ELSE nextSid
                      /\ issuedAt' = (sid :> now) @@ issuedAt
                      /\ loggedOut' = loggedOut \ { sid }
                 ELSE /\ sessions' = touch(sessions, sid)
                      /\ issuedAt' = IF sid \in DOMAIN sessions'
                                     THEN (sid :> now) @@ issuedAt ELSE issuedAt
                      /\ UNCHANGED << nextSid, loggedOut >>
  /\ UNCHANGED << now, bootPc, users, posts, files, limiterHits,
                  loginHits, nreq, loginLog >>

(***************************************************************************)
(* GET /cms/logout (server.js:121-124)                                     *)
(***************************************************************************)
GetLogout(r, c, cookie) ==
  /\ Arrive(r, c, "GET /cms/logout")
  /\ IF ~admitted(c, "GET /cms/logout") THEN Rejected(r, c, "GET /cms/logout")
     ELSE /\ Finish(r, arrived(c, "GET /cms/logout", cookie), Redirect("/cms/login"))
          \* req.session.destroy()
          /\ sessions' = Without(storeAfterGet(cookie), loadedSid(cookie))
          /\ loggedOut' = IF found(cookie) THEN loggedOut \cup { cookie } ELSE loggedOut
          /\ UNCHANGED << now, bootPc, users, posts, files, nextSid, issuedAt >>

(***************************************************************************)
(* GET /cms/dashboard (server.js:126-128)                                  *)
(***************************************************************************)
GetDashboard(r, c, cookie) ==
  /\ Arrive(r, c, "GET /cms/dashboard")
  /\ IF ~admitted(c, "GET /cms/dashboard") THEN Rejected(r, c, "GET /cms/dashboard")
     ELSE /\ Finish(r, arrived(c, "GET /cms/dashboard", cookie),
                    IF requireAuth(loadedUserId(cookie))
                    THEN SendFile("dashboard.html") ELSE Redirect("/cms/login"))
          /\ sessions' = touch(storeAfterGet(cookie), loadedSid(cookie))
          /\ UNCHANGED << now, bootPc, users, posts, files, nextSid,
                          issuedAt, loggedOut >>

(***************************************************************************)
(* GET /cms/posts (server.js:130-138)                                      *)
(***************************************************************************)
GetPosts(r, c, cookie) ==
  /\ Arrive(r, c, "GET /cms/posts")
  /\ IF ~admitted(c, "GET /cms/posts") THEN Rejected(r, c, "GET /cms/posts")
     ELSE /\ IF requireAuth(loadedUserId(cookie))
             THEN /\ req' = [ req EXCEPT ![r] =
                         [ arrived(c, "GET /cms/posts", cookie) EXCEPT !.pc = "query" ] ]
                  /\ sessions' = storeAfterGet(cookie)
                  /\ UNCHANGED last
             ELSE /\ Finish(r, arrived(c, "GET /cms/posts", cookie), Redirect("/cms/login"))
                  /\ sessions' = touch(storeAfterGet(cookie), loadedSid(cookie))
          /\ UNCHANGED << now, bootPc, users, posts, files, nextSid,
                          issuedAt, loggedOut >>

\* mutant: the query without its ORDER BY
listingsUnordered(table) ==
  LET n == Cardinality(table) IN
    { s \in [ 1 .. n -> table ] : \A i, j \in 1 .. n : i # j => s[i] # s[j] }

\* SELECT id, title, date, slug
listed(p) == [ id |-> p.id, title |-> p.title, date |-> p.date, slug |-> p.slug ]

\* ORDER BY date DESC: the listings of a table, rows of equal date in any order
listings(table) ==
  LET n == Cardinality(table) IN
    { s \in [ 1 .. n -> table ] :
        /\ \A i, j \in 1 .. n : i # j => s[i] # s[j]
        /\ \A i, j \in 1 .. n : i < j => ~textLess(s[i].date, s[j].date) }

\* db.all answers with the rows
PostsListed(r) ==
  /\ req[r].pc = "query"
  /\ \E s \in listings(posts) :
       Finish(r, req[r], JsonRows([ i \in DOMAIN s |-> listed(s[i]) ]))
  /\ sessions' = touch(sessions, req[r].sid)
  /\ UNCHANGED << now, bootPc, users, posts, files, nextSid, limiterHits,
                  loginHits, nreq, issuedAt, loggedOut, loginLog >>

\* db.all answers with err
PostsListError(r) ==
  /\ req[r].pc = "query"
  /\ Finish(r, req[r], JsonError(500, "Database error"))
  /\ sessions' = touch(sessions, req[r].sid)
  /\ UNCHANGED << now, bootPc, users, posts, files, nextSid, limiterHits,
                  loginHits, nreq, issuedAt, loggedOut, loginLog >>

(***************************************************************************)
(* POST /cms/posts (server.js:140-178)                                     *)
(***************************************************************************)
\* the handler up to db.run: auth gate, validation, date and slug
PostPosts(r, c, cookie, title, content) ==
  /\ Arrive(r, c, "POST /cms/posts")
  /\ IF ~admitted(c, "POST /cms/posts") THEN Rejected(r, c, "POST /cms/posts")
     ELSE LET a == [ arrived(c, "POST /cms/posts", cookie) EXCEPT
                       !.title = title, !.content = content ]
          IN
          /\ IF ~requireAuth(loadedUserId(cookie))
             THEN /\ Finish(r, a, Redirect("/cms/login"))
                  /\ sessions' = touch(storeAfterGet(cookie), loadedSid(cookie))
             ELSE IF ~Truthy(title) \/ ~Truthy(content)
             THEN /\ Finish(r, a, JsonError(400, "Title and content are required"))
                  /\ sessions' = touch(storeAfterGet(cookie), loadedSid(cookie))
             ELSE IF title.t # "string"
             THEN \* title.toLowerCase is not a function: the error middleware
                  /\ Finish(r, a, JsonError(500, "Something went wrong!"))
                  /\ sessions' = touch(storeAfterGet(cookie), loadedSid(cookie))
             ELSE /\ req' = [ req EXCEPT ![r] =
                         [ a EXCEPT !.pc = "insert", !.date = toISOString(now),
                                    !.slug = deriveSlug(title.v) ] ]
                  /\ sessions' = storeAfterGet(cookie)
                  /\ UNCHANGED last
          /\ UNCHANGED << now, bootPc, users, posts, files, nextSid,
                          issuedAt, loggedOut >>

\* mutant: a posts table without the UNIQUE constraint on slug
slugTakenNever(table, slug) == FALSE

\* slug TEXT UNIQUE (server.js:59)
slugTaken(table, slug) == \E p \in table : p.slug = slug

\* INSERT INTO posts: the statement runs in the database
PostsInsert(r) ==
  /\ req[r].pc = "insert"
  /\ IF slugTaken(posts, req[r].slug)
     THEN /\ req' = [ req EXCEPT ![r].pc = "callback", ![r].err = "SQLITE_CONSTRAINT",
                                 ![r].inserts = @ + 1 ]
          /\ UNCHANGED posts
     ELSE LET id == Cardinality(posts) + 1 IN
          /\ posts' = posts \cup { [ id |-> id, title |-> req[r].title.v,
                                     content |-> req[r].content.v,
                                     date |-> req[r].date, slug |-> req[r].slug ] }
          /\ req' = [ req EXCEPT ![r].pc = "callback", ![r].lastID = id,
                                 ![r].inserts = @ + 1 ]
  /\ UNCHANGED << now, bootPc, users, files, sessions, last, nextSid, limiterHits,
                  loginHits, nreq, issuedAt, loggedOut, loginLog >>

\* the statement fails in the storage layer (busy, I/O error, disk full)
PostsInsertStorageError(r) ==
  /\ req[r].pc = "insert"
  /\ req' = [ req EXCEPT ![r].pc = "callback", ![r].err = "SQLITE_IOERR",
                         ![r].inserts = @ + 1 ]
  /\ UNCHANGED << now, bootPc, users, posts, files, sessions, last, nextSid,
                  limiterHits, loginHits, nreq, issuedAt, loggedOut, loginLog >>

\* mutant: the error branch of the callback falls through to the file write
insertErrorResponseThenWrite(rq) ==
  [ response |-> JsonError(500, "Database error"),
    files |-> (filePath(rq.slug) :> hugoContent(rq.title.v, rq.date, rq.content.v))
              @@ files ]

\* mutant: the error branch of the callback leaves an empty file behind
insertErrorResponseEmptyFile(rq) ==
  [ response |-> JsonError(500, "Database error"),
    files |-> (filePath(rq.slug) :> << >>) @@ files ]

\* the callback's if (err) branch (server.js:153-156)
insertErrorResponse(rq) ==
  [ response |-> JsonError(500, "Database error"), files |-> files ]

\* the callback of db.run with err set
PostsInsertFailed(r) ==
  /\ req[r].pc = "callback"
  /\ req[r].err # "none"
  /\ Finish(r, req[r], insertErrorResponse(req[r]).response)
  /\ files' = insertErrorResponse(req[r]).files
  /\ sessions' = touch(sessions, req[r].sid)
  /\ UNCHANGED << now, bootPc, users, posts, nextSid, limiterHits,
                  loginHits, nreq, issuedAt, loggedOut, loginLog >>

\* mutant: the catch block answers like the success path
fileErrorResponseOk(rq) == JsonCreated(rq.lastID, rq.slug)

\* the catch block of the file write (server.js:173-176)
fileErrorResponse(rq) == JsonError(500, "Error creating post file")

\* the callback of db.run without err: the content file is written
PostsFileWritten(r) ==
  /\ req[r].pc = "callback"
  /\ req[r].err = "none"
  /\ files' = (filePath(req[r].slug) :>
                 hugoContent(req[r].title.v, req[r].date, req[r].content.v)) @@ files
  /\ Finish(r, [ req[r] EXCEPT !.writes = @ + 1 ], JsonCreated(req[r].lastID, req[r].slug))
  /\ sessions' = touch(sessions, req[r].sid)
  /\ UNCHANGED << now, bootPc, users, posts, nextSid, limiterHits,
                  loginHits, nreq, issuedAt, loggedOut, loginLog >>

\* mkdirSync or writeFileSync throws: the file is not created, or is left
\* created and empty
PostsFileFailed(r) ==
  /\ req[r].pc = "callback"
  /\ req[r].err = "none"
  /\ \/ files' = files
     \/ files' = (filePath(req[r].slug) :> << >>) @@ files
  /\ Finish(r, [ req[r] EXCEPT !.writes = @ + 1 ], fileErrorResponse(req[r]))
  /\ sessions' = touch(sessions, req[r].sid)
  /\ UNCHANGED << now, bootPc, users, posts, nextSid, limiterHits,
                  loginHits, nreq, issuedAt, loggedOut, loginLog >>

(***************************************************************************)
(* The clock.                                                              *)
(***************************************************************************)
Tick(step, ticks) ==
  /\ now < step * ticks
  /\ now' = now + step
  /\ UNCHANGED << bootPc, users, posts, files, sessions, nextSid, limiterHits,
                  loginHits, req, last, nreq, issuedAt, loggedOut, loginLog >>

(***************************************************************************)
(* Inputs.                                                                 *)
(***************************************************************************)
HelloWorld == << "H", "e", "l", "l", "o", ",", " ", "W", "o", "r", "l", "d", "!" >>
HelloWorldToo == << "H", "e", "l", "l", "o", " ", "W", "o", "r", "l", "d", "?" >>
Other == << "O", "t", "h", "e", "r" >>
Body == << "b", "o", "d", "y" >>

\* the bodies of the create-post requests of Spec: three titles, two of them
\* with the same slug, and each way of leaving a field out
PostBodies ==
  { [ title |-> t, content |-> Str(Body) ] :
      t \in { Str(HelloWorld), Str(HelloWorldToo), Str(Other), Str(<< >>),
              Undefined, NumberFive } }
  \cup { [ title |-> Str(HelloWorld), content |-> x ] : x \in { Str(<< >>), Undefined } }

\* the bodies of SpecSlug: every title over SlugAlphabet up to MaxTitleLen,
\* and the title "Hello, World!"
SlugAlphabet == { "a", "B", "7", "-", "!" }
BoundedBodies ==
  { [ title |-> Str(t), content |-> Str(Body) ] :
      t \in UNION { [ 1 .. n -> SlugAlphabet ] : n \in 0 .. MaxTitleLen }
             \cup { HelloWorld } }

(***************************************************************************)
(* The arrivals and the steps of the requests in flight.                   *)
(***************************************************************************)
LoginPageArrives(budget, slots, cookies) ==
  /\ nreq < budget
  /\ \E r \in slots, c \in Clients, cookie \in cookies : GetLogin(r, c, cookie)

LoginArrives(budget, slots, cookies, usernames, passwords) ==
  /\ nreq < budget
  /\ \E r \in slots, c \in Clients, cookie \in cookies,
        u \in usernames, p \in passwords : PostLogin(r, c, cookie, u, p)

LogoutArrives(budget, slots, cookies) ==
  /\ nreq < budget
  /\ \E r \in slots, c \in Clients, cookie \in cookies : GetLogout(r, c, cookie)

DashboardArrives(budget, slots, cookies) ==
  /\ nreq < budget
  /\ \E r \in slots, c \in Clients, cookie \in cookies : GetDashboard(r, c, cookie)

ListArrives(budget, slots, cookies) ==
  /\ nreq < budget
  /\ \E r \in slots, c \in Clients, cookie \in cookies : GetPosts(r, c, cookie)

CreateArrives(budget, slots, cookies, bodies) ==
  /\ nreq < budget
  /\ \E r \in slots, c \in Clients, cookie \in cookies, body \in bodies :
       PostPosts(r, c, cookie, body.title, body.content)

LoginSteps ==
  \E r \in Slots : LoginLookupError(r) \/ LoginLookup(r) \/ LoginCompare(r)

ListSteps == \E r \in Slots : PostsListed(r) \/ PostsListError(r)

CreateSteps ==
  \E r \in Slots :
    \/ PostsInsert(r)
    \/ PostsInsertStorageError(r)
    \/ PostsInsertFailed(r)
    \/ PostsFileWritten(r)
    \/ PostsFileFailed(r)

TickHalfHour == Tick(30 * 60 * 1000, MaxHalfHourTicks)
TickHalfDay == Tick(12 * 60 * 60 * 1000, MaxHalfDayTicks)
TickMs == Tick(1, MaxMsTicks)

(***************************************************************************)
(* Spec: the create-post pipeline behind the auth gate, with requests of   *)
(* every kind arriving in any order and interleaving step by step.  The    *)
(* clock stands still here: no step of the pipeline reads it but for the   *)
(* date of a post.                                                         *)
(***************************************************************************)
Next ==
  \/ BootHash
  \/ BootInsert
  \/ LoginArrives(MaxRequests, Slots, Cookies, { "admin" }, { AdminPassword })
  \/ LoginSteps
  \/ LogoutArrives(MaxRequests, Slots, Cookies)
  \/ DashboardArrives(MaxRequests, Slots, Cookies)
  \/ ListArrives(MaxRequests, Slots, Cookies)
  \/ ListSteps
  \/ CreateArrives(MaxRequests, Slots, Cookies, PostBodies)
  \/ CreateSteps

Spec == Init /\ [][Next]_vars

(***************************************************************************)
(* Claims about the create-post pipeline, checked under Spec.              *)
(***************************************************************************)
\* the create-post requests whose INSERT has run: those waiting for their
\* callback, and the last request if it got as far
AfterInsert ==
  { req[r] : r \in { x \in Slots : req[x].pc = "callback" } }
  \cup { rq \in { last } : rq.kind = "POST /cms/posts" /\ rq.inserts > 0 }

RowsOfSlug(slug) == { p \in posts : p.slug = slug }

\* C1: under every interleaving of create-post requests no two rows share a
\* slug; of the requests that derive the same slug exactly one commits a
\* row (at most one of any two), and every other one whose INSERT ran
\* without a storage failure observes the duplicate-slug failure against
\* that committed row.
C1_OneRowPerSlug ==
  /\ \A p, q \in posts : p.slug = q.slug => p = q
  /\ \A rq \in AfterInsert :
       /\ rq.err = "none" =>
            /\ rq.lastID # 0
            /\ RowsOfSlug(rq.slug) = { p \in posts : p.id = rq.lastID }
            /\ Cardinality(RowsOfSlug(rq.slug)) = 1
       /\ rq.err = "SQLITE_CONSTRAINT" =>
            /\ rq.lastID = 0
            /\ Cardinality(RowsOfSlug(rq.slug)) = 1
  /\ \A r1, r2 \in Slots :
       /\ r1 # r2
       /\ req[r1].pc = "callback" /\ req[r2].pc = "callback"
       /\ req[r1].slug = req[r2].slug
       => ~(req[r1].err = "none" /\ req[r2].err = "none")

\* two requests with distinct titles and the same slug raced: one committed,
\* the other observed the duplicate
C1_Witness ==
  \E r1, r2 \in Slots :
    /\ req[r1].pc = "callback" /\ req[r2].pc = "callback"
    /\ req[r1].title # req[r2].title
    /\ req[r1].slug = req[r2].slug
    /\ req[r1].err = "none" /\ req[r2].err = "SQLITE_CONSTRAINT"

\* C2: a create-post request whose slug already belongs to a committed row
\* adds no row and writes no file, and the file stored under that slug
\* stays as it is: neither its INSERT step nor its callback changes the
\* posts table or any content file, and it does not report success.
C2_DuplicateChangesNothing ==
  [][ \A r \in Slots :
        /\ req'[r] # req[r]
        /\ \/ req[r].pc = "insert" /\ \E p \in posts : p.slug = req[r].slug
           \/ req[r].pc = "callback" /\ req[r].err = "SQLITE_CONSTRAINT"
        => /\ posts' = posts
           /\ files' = files
           /\ req'[r].lastID = 0
           /\ req'[r].pc = "idle" =>
                /\ last'.writes = 0
                /\ last'.res.status >= 400 ]_vars

\* a request with another title of the same slug was rejected while the
\* file of the first title is in place
C2_Witness ==
  /\ last.kind = "POST /cms/posts"
  /\ last.err = "SQLITE_CONSTRAINT"
  /\ last.title = Str(HelloWorldToo)
  /\ filePath(last.slug) \in DOMAIN files
  /\ files[filePath(last.slug)] = hugoContent(HelloWorld, toISOString(0), Body)

\* C3: a create-post request rejected because its slug already exists is
\* answered with a client error (Conflict), which differs from the answer
\* to a storage failure.
C3_DuplicateIsConflict ==
  /\ last.kind = "POST /cms/posts"
  /\ last.err = "SQLITE_CONSTRAINT"
  => /\ last.res.status \in 400 .. 499
     /\ last.res # JsonError(500, "Database error")

Privileged == { "GET /cms/posts", "POST /cms/posts", "GET /cms/dashboard" }

\* C4: a privileged request (list, create, dashboard) without a valid
\* session is redirected to the login page at once and does none of the
\* operation: it never goes in flight, reads no row, inserts none, writes
\* no file.
C4_NoSessionNoOperation ==
  /\ [](/\ \A r \in Slots : req[r].kind \in Privileged => req[r].authed
        /\ /\ last.kind \in Privileged
           /\ ~last.authed
           /\ last.res # TooManyRequests
           => /\ last.res = Redirect("/cms/login")
              /\ last.inserts = 0 /\ last.writes = 0 /\ last.lastID = 0)
  /\ [][ /\ nreq' = nreq + 1
         /\ last' # last \/ req' = req
         /\ last'.kind \in Privileged
         /\ ~last'.authed
         => /\ req' = req
            /\ posts' = posts /\ files' = files /\ users' = users ]_vars

\* a create-post request with the cookie of a logged-out session was
\* redirected, while another session is valid
C4_Witness ==
  /\ last.kind = "POST /cms/posts"
  /\ ~last.authed
  /\ last.cookie \in loggedOut
  /\ Truthy(last.title) /\ Truthy(last.content)
  /\ last.res = Redirect("/cms/login")

\* C5: when the file write of a create-post request fails after its row
\* was inserted, the row stays committed, later listings show it, the write
\* is attempted once, and the request reports a server error, not success.
FileMissing(rq) ==
  \/ filePath(rq.slug) \notin DOMAIN files
  \/ files[filePath(rq.slug)] # hugoContent(rq.title.v, rq.date, rq.content.v)

NextSlug ==
  \/ BootHash
  \/ BootInsert
  \/ LoginArrives(MaxSlugRequests, Slots, Cookies, { "admin" }, { AdminPassword })
  \/ LoginSteps
  \/ CreateArrives(MaxSlugRequests, Slots, Cookies, BoundedBodies)
  \/ CreateSteps

SpecSlug == Init /\ [][NextSlug]_vars

\* the create-post requests that derived a slug
WithSlug ==
  { req[r] : r \in { x \in Slots : req[x].pc \in { "insert", "callback" } } }
  \cup { rq \in { last } : rq.kind = "POST /cms/posts" /\ rq.inserts > 0 }

\* only [a-z0-9-], no hyphen at either end, no two hyphens in a row
WellFormedSlug(slug) ==
  /\ \A i \in DOMAIN slug : IsSlugChar(slug[i]) \/ slug[i] = "-"
  /\ slug # << >> => slug[1] # "-" /\ slug[Len(slug)] # "-"
  /\ \A i \in 1 .. Len(slug) - 1 : ~(slug[i] = "-" /\ slug[i + 1] = "-")

\* C6: for every title create-post accepts, the slug has only lowercase
\* letters, digits and hyphens, no hyphen at either end and no two hyphens
\* in a row; "Hello, World!" gives "hello-world" and the file
\* content/posts/hello-world.md.
C6_SlugWellFormed ==
  \A rq \in WithSlug :
    /\ WellFormedSlug(rq.slug)
    /\ rq.title = Str(HelloWorld) =>
         /\ rq.slug = << "h", "e", "l", "l", "o", "-", "w", "o", "r", "l", "d" >>
         /\ filePath(rq.slug) =
              << "content/posts/", "h", "e", "l", "l", "o", "-", "w", "o", "r", "l", "d",
                 ".md" >>

(***************************************************************************)
(* SpecSession: the lifetime of a session, with the clock moving by half   *)
(* days.                                                                   *)
(***************************************************************************)
NextSession ==
  \/ BootHash
  \/ BootInsert
  \/ LoginArrives(MaxSessionRequests, Slots, Cookies, { "admin" }, { AdminPassword })
  \/ LoginSteps
  \/ LogoutArrives(MaxSessionRequests, Slots, Cookies)
  \/ DashboardArrives(MaxSessionRequests, Slots, Cookies)
  \/ TickHalfDay

SpecSession == Init /\ [][NextSession]_vars

\* C7: a session is valid right after the login that issued it, and invalid
\* in every state after its logout or from 24 hours after it was issued.
C7_SessionLifetime ==
  \A s \in DOMAIN issuedAt :
    /\ issuedAt[s] = now /\ s \notin loggedOut => found(s)
    /\ s \in loggedOut => ~found(s)
    /\ now >= issuedAt[s] + maxAge => ~found(s)

\* C8: the expiry of a session is fixed when it is issued: no request that
\* presents it moves the expiry later, so the stored expiry is always the
\* time of issue plus 24 hours.
C8_ExpiryFixedAtIssuance ==
  [][ \A s \in DOMAIN sessions \cap DOMAIN sessions' :
        sessions'[s].expires > sessions[s].expires
        => issuedAt'[s] = now /\ sessions'[s].expires = issuedAt'[s] + maxAge ]_vars

(***************************************************************************)
(* SpecLogin: the login limiter, with the clock moving by half hours.      *)
(***************************************************************************)
NextLogin ==
  \/ BootHash
  \/ BootInsert
  \/ LoginPageArrives(MaxLoginRequests, OneSlot, LatestCookie)
  \/ LoginArrives(MaxLoginRequests, OneSlot, LatestCookie, { "admin" },
                  { AdminPassword, "guess" })
  \/ LoginSteps
  \/ TickHalfHour

SpecLogin == Init /\ [][NextLogin]_vars

RECURSIVE sumOver(_, _, _)
sumOver(log, keys, field) ==
  IF keys = {} THEN 0
  ELSE LET k == CHOOSE x \in keys : TRUE
       IN  log[k][field] + sumOver(log, keys \ { k }, field)

\* how many login attempts of client c the log holds from time t on and
\* before time u, counted by field
Counted(c, t, u, field) ==
  sumOver(loginLog,
          { k \in DOMAIN loginLog : k[1] = c /\ k[2] >= t /\ k[2] < u }, field)

\* C9 as stated: in any one-hour window at most 5 login attempts of a
\* client reach the credential check.
C9_AnyHourAtMostFive ==
  \A k \in DOMAIN loginLog :
    Counted(k[1], k[2], k[2] + loginWindowMs, "verified") <= loginMax

\* C9 as amended: in any one window of the login limiter (one hour from the
\* client's first counted request) at most 5 login attempts of the client
\* reach the credential check; a login attempt the limiter turns down does
\* not go in flight (no lookup, no comparison) and issues no session.
C9_WindowAtMostFive ==
  /\ [](\A c \in DOMAIN loginHits :
          Counted(c, loginHits[c].resetTime - loginWindowMs,
                  loginHits[c].resetTime, "verified") <= loginMax)
  /\ [][ \A k \in DOMAIN loginLog' :
           logOf(loginLog', k).rejected > logOf(loginLog, k).rejected
           => /\ req' = req
              /\ sessions' = sessions /\ nextSid' = nextSid /\ issuedAt' = issuedAt
              /\ last'.res = TooManyRequests ]_vars

\* five attempts of the window were verified and one more, with the right
\* password, was turned down
C9_Witness ==
  /\ last.kind = "POST /cms/login"
  /\ last.res = TooManyRequests
  /\ \E c \in DOMAIN loginHits :
       /\ loginHits[c].resetTime > now
       /\ Counted(c, loginHits[c].resetTime - loginWindowMs,
                  loginHits[c].resetTime, "verified") = loginMax

\* C10: only login attempts count against the login limiter: a request of
\* another kind leaves its counters alone, and a login attempt is turned
\* down by it only after 5 login attempts of the client in the hour before.
C10_OnlyAttemptsCount ==
  /\ [](\A k \in DOMAIN loginLog :
          loginLog[k].rejected > 0
          => Counted(k[1], k[2] - loginWindowMs + 1, k[2] + 1, "attempts") > loginMax)
  /\ [][ nreq' = nreq + 1 /\ loginLog' = loginLog => loginHits' = loginHits ]_vars

(***************************************************************************)
(* SpecLimiter: one client sends more requests than the general limiter    *)
(* admits in a window, one after the other, with the clock standing still. *)
(***************************************************************************)
\* the body of the create-post requests of SpecLimiter
OneBody == { [ title |-> Str(HelloWorld), content |-> Str(Body) ] }

NextLimiter ==
  \/ BootHash
  \/ BootInsert
  \/ LoginArrives(MaxLimiterRequests, OneSlot, LatestCookie, { "admin" },
                  { AdminPassword })
  \/ LoginSteps
  \/ CreateArrives(MaxLimiterRequests, OneSlot, LatestCookie, OneBody)
  \/ CreateSteps

SpecLimiter == Init /\ [][NextLimiter]_vars

\* the arriving request is over the limit of the general limiter, or of the
\* login limiter: the client whose counter moved has more hits than max
OverLimit ==
  \/ \E c \in DOMAIN limiterHits' :
       /\ c \notin DOMAIN limiterHits \/ limiterHits'[c] # limiterHits[c]
       /\ limiterHits'[c].hits > limiterMax
  \/ \E c \in DOMAIN loginHits' :
       /\ c \notin DOMAIN loginHits \/ loginHits'[c] # loginHits[c]
       /\ loginHits'[c].hits > loginMax

\* C11: a request over the limit of the general limiter (more than 100
\* requests of the client in the window) or of the login limiter is answered
\* 429 in its arrival step, and that step changes neither the user table,
\* nor the session store, nor the posts table, nor any content file, and
\* puts no request in flight.
C11_RejectedTouchesNothing ==
  [][ nreq' = nreq + 1 /\ OverLimit
      => /\ last'.res = TooManyRequests
         /\ req' = req
         /\ users' = users
         /\ sessions' = sessions /\ nextSid' = nextSid
         /\ posts' = posts
         /\ files' = files ]_vars

\* the general limiter turned down a create-post request that carries the
\* cookie of a valid session and a title that is not taken
C11_Witness ==
  /\ last.kind = "POST /cms/posts"
  /\ last.res = TooManyRequests
  /\ \E c \in DOMAIN limiterHits : limiterHits[c].hits = limiterMax + 1
  /\ \E s \in DOMAIN sessions : found(s)
  /\ posts = {}

(***************************************************************************)
(* SpecAuth: login attempts with every combination of a known, an unknown  *)
(* or a missing username and a right, a wrong or a missing password, from  *)
(* the moment the server listens (the admin bootstrap may still run).      *)
(***************************************************************************)
NextAuth ==
  \/ BootHash
  \/ BootInsert
  \/ LoginArrives(MaxAuthRequests, Slots, Cookies, Usernames, Passwords)
  \/ LoginSteps

SpecAuth == Init /\ [][NextAuth]_vars

\* why a login attempt fails: the lookup gave no row (NotFound), or it gave
\* one whose hash is not that of the submitted password (Mismatch)
NotFound(rq) == rq.user = NoUser
Mismatch(rq) == rq.user # NoUser /\ rq.user.password # bcryptHash(rq.password)

\* the login attempt of slot r answers in this step
LoginAnswers(r) ==
  /\ req[r].kind = "POST /cms/login"
  /\ req[r].pc \in { "lookup", "compare" }
  /\ req'[r].pc = "idle"

\* C12: a login attempt that fails for an unknown username and one that
\* fails for a wrong password get the same response, the redirect to
\* /cms/login?error=1, and the same session state: no session is issued,
\* the session the request came with keeps its user id, and the store is
\* what the touch of that session makes it.
C12_FailuresLookAlike ==
  /\ [](/\ last.kind = "POST /cms/login"
        /\ last.res # TooManyRequests
        /\ NotFound(last) \/ Mismatch(last)
        => last.res = Redirect("/cms/login?error=1"))
  /\ [][ \A r \in Slots :
           LoginAnswers(r) /\ (NotFound(last') \/ Mismatch(last'))
           => /\ last'.res = Redirect("/cms/login?error=1")
              /\ last'.userId = req[r].userId /\ last'.sid = req[r].sid
              /\ nextSid' = nextSid /\ issuedAt' = issuedAt
              /\ sessions' = touch(sessions, req[r].sid) ]_vars

\* an attempt with an unknown username was answered with the error
\* redirect, and an attempt with the known username and a wrong password
\* waits for its comparison
C12_Witness ==
  /\ last.kind = "POST /cms/login"
  /\ last.username = "mallory" /\ NotFound(last)
  /\ last.res = Redirect("/cms/login?error=1")
  /\ users # {}
  /\ \E r \in Slots :
       /\ req[r].pc = "compare"
       /\ req[r].username = "admin" /\ req[r].password = "guess"

\* the user ids of the user table
UserIds == { u.id : u \in users }

\* C18: a session gets its user id only in the step that ends a successful
\* password comparison, for the row the lookup found under the submitted
\* username; so every stored session carries the id of a row of the user
\* table, and a login that fails or errors binds no user id: it issues no
\* session and leaves the user id of the session it came with as it was.
C18_BoundAfterVerification ==
  /\ [](\A s \in DOMAIN sessions : sessions[s].userId \in UserIds)
  /\ [][ /\ \A s \in DOMAIN sessions' :
              s \notin DOMAIN sessions \/ sessions'[s].userId # sessions[s].userId
              => \E r \in Slots :
                   /\ req[r].pc = "compare" /\ req'[r].pc = "idle"
                   /\ req[r].user \in users
                   /\ req[r].user.username = req[r].username
                   /\ req[r].user.password = bcryptHash(req[r].password)
                   /\ sessions'[s].userId = req[r].user.id
                   /\ last'.res = Redirect("/cms/dashboard")
         /\ \A r \in Slots :
              LoginAnswers(r) /\ last'.res # Redirect("/cms/dashboard")
              => /\ DOMAIN sessions' \subseteq DOMAIN sessions
                 /\ last'.userId = req[r].userId ]_vars

\* one login succeeded and its session is valid; a later attempt without a
\* cookie, with the right username and a wrong password, was answered with
\* the error redirect
C18_Witness ==
  /\ nextSid = 2
  /\ found(1) /\ sessions[1].userId \in UserIds
  /\ last.kind = "POST /cms/login"
  /\ last.cookie = 0 /\ last.userId = 0
  /\ last.username = "admin" /\ last.password = "guess"
  /\ last.res = Redirect("/cms/login?error=1")

\* the rows of the account named admin
Admins == { u \in users : u.username = "admin" }

\* C19: whenever the credential verification of a login runs or has run,
\* exactly one account named admin exists, and a login with the username
\* admin and the bootstrap password that passed the limiters succeeds.
C19_AdminReadyBeforeLogin ==
  /\ \A r \in Slots :
       req[r].pc \in { "lookup", "compare" } => Cardinality(Admins) = 1
  /\ /\ last.kind = "POST /cms/login"
     /\ last.res # TooManyRequests
     /\ last.username = "admin" /\ last.password = AdminPassword
     => last.res = Redirect("/cms/dashboard")

(***************************************************************************)
(* SpecDates: create-post and list requests interleave while the clock     *)
(* moves by milliseconds, so that posts get different dates.               *)
(***************************************************************************)
\* the bodies of the create-post requests of SpecDates
DateBodies ==
  { [ title |-> Str(t), content |-> Str(Body) ] : t \in { HelloWorld, Other } }

NextDates ==
  \/ BootHash
  \/ BootInsert
  \/ LoginArrives(MaxDateRequests, Slots, Cookies, { "admin" }, { AdminPassword })
  \/ LoginSteps
  \/ ListArrives(MaxDateRequests, Slots, Cookies)
  \/ ListSteps
  \/ CreateArrives(MaxDateRequests, Slots, Cookies, DateBodies)
  \/ CreateSteps
  \/ TickMs

SpecDates == Init /\ [][NextDates]_vars

\* the instant a date text stands for
RECURSIVE instantOf(_)
instantOf(date) ==
  IF date = << >> THEN 0
  ELSE 10 * instantOf(SubSeq(date, 1, Len(date) - 1))
       + (CHOOSE i \in DOMAIN Digits : Digits[i] = date[Len(date)]) - 1

\* C13: a listing that succeeds returns the rows the posts table holds when
\* the query runs, each once, the most recent date first, every row with
\* the slug derived from its title; rows are never removed, so a committed
\* post is in every later listing.
C13_ListingIsTheTable ==
  /\ [](\A p \in posts : p.slug = deriveSlug(p.title))
  /\ [][ /\ posts \subseteq posts'
         /\ \A r \in Slots :
              req[r].pc = "query" /\ req'[r].pc = "idle" /\ last'.res.status = 200
              => LET rows == last'.res.rows IN
                 /\ { rows[i] : i \in DOMAIN rows } = { listed(p) : p \in posts }
                 /\ Len(rows) = Cardinality(posts)
                 /\ \A i, j \in DOMAIN rows :
                      i < j => instantOf(rows[i].date) >= instantOf(rows[j].date)
                 /\ \A i \in DOMAIN rows : rows[i].slug = deriveSlug(rows[i].title) ]_vars

\* a listing of two posts of different dates: the more recent one comes
\* first, though its row was inserted first
C13_Witness ==
  /\ last.kind = "GET /cms/posts"
  /\ Len(last.res.rows) = 2
  /\ last.res.rows[1].id = 1 /\ last.res.rows[2].id = 2
  /\ instantOf(last.res.rows[1].date) > instantOf(last.res.rows[2].date)

\* C17: of any two committed posts, the one inserted later (the one with
\* the larger id) has a date that is not earlier.
C17_DatesFollowIds ==
  \A p, q \in posts : p.id < q.id => instantOf(p.date) <= instantOf(q.date)

(***************************************************************************)
(* More claims about the create-post pipeline, checked under Spec.         *)
(***************************************************************************)
\* a body field that is missing or the empty string
EmptyOrMissing(x) == x = Undefined \/ x = Str(<< >>)

\* C14: a create-post request with a valid session and an empty or missing
\* title or content is answered 400 in its arrival step, never goes in
\* flight, inserts no row and writes no file.
C14_InvalidInputChangesNothing ==
  /\ [](/\ \A r \in Slots :
             req[r].kind = "POST /cms/posts"
             => ~EmptyOrMissing(req[r].title) /\ ~EmptyOrMissing(req[r].content)
        /\ /\ last.kind = "POST /cms/posts"
           /\ last.authed
           /\ last.res # TooManyRequests
           /\ EmptyOrMissing(last.title) \/ EmptyOrMissing(last.content)
           => /\ last.res = JsonError(400, "Title and content are required")
              /\ last.inserts = 0 /\ last.writes = 0 /\ last.lastID = 0)
  /\ [][ /\ nreq' = nreq + 1
         /\ last' # last \/ req' = req
         /\ last'.kind = "POST /cms/posts"
         /\ EmptyOrMissing(last'.title) \/ EmptyOrMissing(last'.content)
         => /\ req' = req
            /\ posts' = posts /\ files' = files ]_vars

\* a request with a valid session, the title "Hello, World!" and an empty
\* content was answered 400 while no post of that title exists
C14_Witness ==
  /\ last.kind = "POST /cms/posts"
  /\ last.authed
  /\ last.title = Str(HelloWorld) /\ last.content = Str(<< >>)
  /\ last.res = JsonError(400, "Title and content are required")
  /\ \A p \in posts : p.title # HelloWorld
  /\ filePath(deriveSlug(HelloWorld)) \notin DOMAIN files

\* C16: a content file exists under a slug only if a committed row has that
\* slug; a step that writes a file is the callback of a request whose
\* INSERT ran without error and whose row is in the table, and the callback
\* of a failed INSERT writes none.
C16_FileOnlyWithRow ==
  /\ [](\A path \in DOMAIN files : \E p \in posts : filePath(p.slug) = path)
  /\ [][ files' # files
         => \E r \in Slots :
              /\ req[r].pc = "callback" /\ req'[r].pc = "idle"
              /\ req[r].err = "none" /\ req[r].inserts = 1
              /\ \E p \in posts : p.id = req[r].lastID /\ p.slug = req[r].slug
              /\ \A path \in DOMAIN files' :
                   \/ path \in DOMAIN files /\ files'[path] = files[path]
                   \/ path = filePath(req[r].slug) ]_vars

\* the INSERT of a request failed in the storage layer and the request was
\* answered: no file exists under its slug, while the file of another post
\* is in place
C16_Witness ==
  /\ last.kind = "POST /cms/posts"
  /\ last.err = "SQLITE_IOERR"
  /\ filePath(last.slug) \notin DOMAIN files
  /\ \E p \in posts : filePath(p.slug) \in DOMAIN files

\* the outcome of a create-post request that answered
Outcome(rq) ==
  IF rq.res = Redirect("/cms/login") THEN "Unauthenticated"
  ELSE IF rq.res = JsonError(400, "Title and content are required") THEN "InvalidInput"
  ELSE IF rq.err = "SQLITE_CONSTRAINT" /\ rq.res.status >= 400 THEN "Conflict"
  ELSE IF rq.res = JsonError(500, "Error creating post file") THEN "PartialFailure"
  ELSE IF rq.res = JsonCreated(rq.lastID, rq.slug) /\ rq.lastID # 0 THEN "Success"
  ELSE "other"

\* C20: a create-post request that passed the limiters and answered has
\* one of the outcomes Unauthenticated, InvalidInput, Conflict,
\* PartialFailure and Success, after at most one INSERT and at most one
\* file write.
C20_OneOutcomeOfFive ==
  /\ last.kind = "POST /cms/posts"
  /\ last.res # TooManyRequests
  => /\ Outcome(last) # "other"
     /\ last.inserts <= 1 /\ last.writes <= 1

(***************************************************************************)
(* SpecPublish: create-post requests whose titles and contents hold the    *)
(* characters the content file gives a meaning to.                         *)
(***************************************************************************)
SayHi == << "S", "a", "y", " ", "\"", "h", "i", "\"" >>

PublishBodies ==
  { [ title |-> Str(t), content |-> Str(Body) ] : t \in { HelloWorld, Other, SayHi } }

NextPublish ==
  \/ BootHash
  \/ BootInsert
  \/ LoginArrives(MaxPublishRequests, Slots, Cookies, { "admin" }, { AdminPassword })
  \/ LoginSteps
  \/ CreateArrives(MaxPublishRequests, Slots, Cookies, PublishBodies)
  \/ CreateSteps

SpecPublish == Init /\ [][NextPublish]_vars

\* what follows the first occurrence of the token sequence key in text;
\* the empty sequence if there is none
RECURSIVE after(_, _)
after(text, key) ==
  IF Len(text) < Len(key) THEN << >>
  ELSE IF SubSeq(text, 1, Len(key)) = key THEN SubSeq(text, Len(key) + 1, Len(text))
  ELSE after(Tail(text), key)

\* the text up to the first occurrence of the token stop
RECURSIVE upTo(_, _)
upTo(text, stop) ==
  IF text = << >> \/ Head(text) = stop THEN << >>
  ELSE << Head(text) >> \o upTo(Tail(text), stop)

\* reading the content file back: the front matter is what stands between
\* the opening line --- and the next line ---; a quoted value ends at the
\* next double quote, a plain value at the end of its line; the body is
\* what follows the blank line after the front matter
frontMatter(file) == after(file, << "---", "\n" >>)
frontMatterTitle(file) == upTo(after(frontMatter(file), << "title: ", "\"" >>), "\"")
frontMatterDate(file) == upTo(after(frontMatter(file), << "date: " >>), "\n")
frontMatterDraftIsFalse(file) ==
  LET rest == after(frontMatter(file), << "\n", "draft: false" >>)
  IN  rest # << >> /\ Head(rest) = "\n"
bodyOf(file) == after(frontMatter(file), << "\n", "---", "\n", "\n" >>)

\* C15: a create-post request that reports success returns the id and the
\* slug of a row it inserted, whose slug is the slug derived from its
\* title; and when it answers, the file under that slug reads back with the
\* title and the date of the row, draft false and the submitted content as
\* its body.
C15_SuccessMeansRowAndFile ==
  /\ last.kind = "POST /cms/posts"
  /\ last.res.status = 200
  => /\ last.inserts = 1 /\ last.writes = 1
     /\ last.res = JsonCreated(last.lastID, last.slug)
     /\ \E p \in posts :
          /\ p.id = last.res.id /\ p.slug = last.res.slug
          /\ p.title = last.title.v /\ p.content = last.content.v
          /\ p.slug = replaceRuns(toLowerCase(p.title), FALSE)
          /\ filePath(p.slug) \in DOMAIN files
          /\ LET file == files[filePath(p.slug)] IN
               /\ frontMatterTitle(file) = p.title
               /\ frontMatterDate(file) = p.date
               /\ frontMatterDraftIsFalse(file)
               /\ bodyOf(file) = last.content.v

=============================================================================
